---- MODULE Spec2Model ----
(***************************************************************************)
(* Model of wv_classify.py (WorldView-2 correction and classification).   *)
(*                                                                         *)
(* Numbers.  Reflectances are integers in units of 0.001; NaN is a        *)
(* distinguished value and every comparison with it is false.  A ratio    *)
(* (a-b)/(a+b) is compared with a threshold by cross-multiplication, with *)
(* the IEEE outcomes of a zero denominator (+inf, -inf, NaN).  float32     *)
(* rounding is not modelled.                                               *)
(*                                                                         *)
(* Specifications.                                                         *)
(*   Spec        main() and process_file() as CPython executes them.       *)
(*   SpecLive    Spec with the interpreter's steps taken fairly.           *)
(*   SpecStages  process_file() from line 361 on, read as the MATLAB       *)
(*               program it transcribes: a statement that CPython rejects  *)
(*               on every execution (calling an array, float() of a        *)
(*               vector, zeros(a, b), the misspelt name n_glinted, the     *)
(*               comparison of the builtin filter) has the meaning of the  *)
(*               MATLAB statement, and the NaN test of line 382 is the     *)
(*               value test of line 737.  Every statement CPython can      *)
(*               execute keeps its CPython meaning, exceptions included.   *)
(*   SpecDepth   the depth guard of lines 700-705 applied to drawn inputs. *)
(*   SpecAzimuth the azimuth reduction of lines 194-201 applied to drawn   *)
(*               azimuths.                                                 *)
(***************************************************************************)
EXTENDS Integers, Sequences, FiniteSets, TLC

\* ------------------------------------------------------------------ bounds
MaxRows == 2
MaxCols == 2
MaxSpecial == 2

\* ------------------------------------------------------------------ numbers
NaN == 0 - 999999

IsNaN(x) == x = NaN

\* a < b and a > b as IEEE comparisons
LT(a, b) == ~IsNaN(a) /\ ~IsNaN(b) /\ a < b
GT(a, b) == LT(b, a)

\* n/d < cn/cd  (cd > 0)
RatioLT(n, d, cn, cd) ==
    IF IsNaN(n) \/ IsNaN(d) THEN FALSE
    ELSE IF d = 0 THEN n < 0
    ELSE IF d > 0 THEN n * cd < cn * d
    ELSE n * cd > cn * d

\* n/d > cn/cd  (cd > 0)
RatioGT(n, d, cn, cd) ==
    IF IsNaN(n) \/ IsNaN(d) THEN FALSE
    ELSE IF d = 0 THEN n > 0
    ELSE IF d > 0 THEN n * cd > cn * d
    ELSE n * cd < cn * d

\* (px[a]-px[b])/(px[a]+px[b]) against cn/100
NDLT(px, a, b, cn) ==
    ~IsNaN(px[a]) /\ ~IsNaN(px[b]) /\ RatioLT(px[a] - px[b], px[a] + px[b], cn, 100)
NDGT(px, a, b, cn) ==
    ~IsNaN(px[a]) /\ ~IsNaN(px[b]) /\ RatioGT(px[a] - px[b], px[a] + px[b], cn, 100)

Bands == 0 .. 7

\* ------------------------------------------------------------------ inputs
\* per-band coefficients of the scene (0.001 per count; offset in 0.001)
C1 == [d \in Bands |-> 2]
C2 == [d \in Bands |-> 10]

Vec(s) == [d \in Bands |-> s[d + 1]]

NaNPixel == [d \in Bands |-> NaN]

\* raw digital counts of the pixels the scenes are built from
RawSand   == Vec(<<55, 65, 75, 85, 95, 105, 115, 96>>)
RawVeg    == Vec(<<15, 20, 30, 25, 20, 105, 205, 215>>)
RawWater  == Vec(<<25, 20, 30, 35, 15, 20, 15, 10>>)
RawWaterA == Vec(<<35, 33, 30, 20, 28, 15, 23, 13>>)
RawGlintA == Vec(<<85, 83, 80, 70, 78, 65, 73, 63>>)
RawGlintB == Vec(<<80, 75, 70, 80, 65, 75, 68, 85>>)
RawMud    == Vec(<<35, 45, 30, 25, 50, 45, 40, 53>>)
RawMarsh  == Vec(<<20, 25, 15, 12, 40, 50, 80, 65>>)
RawDead   == Vec(<<20, 25, 15, 12, 25, 50, 60, 55>>)
RawGrass  == Vec(<<20, 15, 35, 30, 25, 20, 15, 10>>)
RawTurbid == Vec(<<20, 15, 35, 33, 32, 20, 15, 10>>)
RawZero   == [d \in Bands |-> 0]
RawSat    == [d \in Bands |-> 2047]

Palette ==
    {RawSand, RawVeg, RawWater, RawWaterA, RawGlintA, RawGlintB, RawMud, RawMarsh,
     RawDead, RawGrass, RawTurbid, RawZero, RawSat}

\* all 8 counts carry a no-data sentinel value
IsSentinel(a) == \A d \in Bands : a[d] \in {0, 2047}

\* a pixel together with its bit of the built-up mask
Specials ==
    {[a |-> p, bw |-> 0] : p \in Palette \cup {NaNPixel}}
        \cup {[a |-> RawSand, bw |-> 1], [a |-> RawMud, bw |-> 1]}

Fills == {NaNPixel, RawWater}

\* the image sizes, and one image of a single column with one row more
Dims ==
    {[rows |-> r, cols |-> c] : r \in 1 .. MaxRows, c \in 1 .. MaxCols}
        \cup {[rows |-> MaxRows + 1, cols |-> 1]}

Pos(size) == (0 .. size.rows - 1) \X (0 .. size.cols - 1)

\* ------------------------------------------------------------------ state
VARIABLES
    crd_arg, crd_sys, d_t, Rrs_write, filter,   \* invocation parameters
    aqyear, aqmonth, aqday, aqhour,             \* acquisition time (metadata)
    sunaz, sensaz, az,                          \* azimuths (metadata), relative azimuth
    sz, A, BW,                                  \* raster size, counts, built-up mask
    pc, err,                                    \* position in the program, exception
    ESd, Rrs, files,                            \* Earth-Sun distance, reflectance, outputs
    j, k,                                       \* loop indices
    num_pix, c_val, b, t, u, v,                 \* sampler counters
    sum_SD, sum_veg, sum_veg2, dead_veg, sum_water_rrs, water, fired,
    mnNIR1, mnNIR2, E_glint,                    \* glint estimator
    avg_SD_sum, avg_veg_sum, avg_dead_veg, avg_mang_sum, avg_water_sum,
    Bathy, Rrs_deglint, Rrs_0, map, entered     \* classifier

params   == <<crd_arg, d_t, Rrs_write, filter, aqyear, aqmonth, aqday, aqhour, sz, A, BW>>
sampler  == <<num_pix, c_val, b, t, u, v, sum_SD, sum_veg, sum_veg2, dead_veg,
              sum_water_rrs, water, fired>>
glint    == <<mnNIR1, mnNIR2, E_glint>>
metrics  == <<avg_SD_sum, avg_veg_sum, avg_dead_veg, avg_mang_sum, avg_water_sum>>
rasters  == <<Bathy, Rrs_deglint, Rrs_0, map, entered>>
azimuth  == <<sunaz, sensaz, az>>
vars     == <<params, azimuth, crd_sys, pc, err, ESd, Rrs, files, j, k, sampler, glint,
              metrics, rasters>>

\* ------------------------------------------------------------------ SceneGeometry
\* twice the number of days since J2000 (the time of day is 0 h or 12 h)
JulianD2(year0, month0, day, hour) ==
    LET year  == IF month0 = 1 \/ month0 = 2 THEN year0 - 1 ELSE year0
        month == IF month0 = 1 \/ month0 = 2 THEN month0 + 12 ELSE month0
        B1    == year \div 100
        B2    == 2 - B1 + (B1 \div 4)
        i1    == (1461 * (year + 4716)) \div 4
        i2    == (306001 * (month + 1)) \div 10000
    IN  2 * (i1 + i2 + day + B2) + (hour \div 12) - 3049 - 4903090

\* solar mean anomaly in 0.001 degree, reduced to [0, 360)
Degs(D2) == (357529 + ((4928 * (D2 % 56250)) \div 10)) % 360000

CosTable ==
    <<100000, 86603, 50000, 0, -50000, -86603, -100000, -86603, -50000, 0, 50000, 86603>>

\* 100000 * cos of an angle given in 0.001 degree, to the nearest 30 degrees
cosd(m) == CosTable[((((m % 360000) + 15000) \div 30000) % 12) + 1]

\* 100000 * ESd
EarthSun(degs) ==
    100014 - ((1671 * cosd(degs)) \div 100000) - ((14 * cosd(2 * degs)) \div 100000)

ESdInRange(e) == 98300 < e /\ e < 101700

\* lines 194-199: an azimuth above 180 degrees is taken 360 degrees lower
NormalizeNone(a) == a
Normalize(a) == IF a > 180 THEN a - 360 ELSE a

\* line 201: az = abs(sensaz - 180 - sunaz)
RelativeAzimuth(sun, sens) ==
    LET d == sens - 180 - sun IN IF d < 0 THEN 0 - d ELSE d

\* ------------------------------------------------------------------ ReflectanceConverter
ToRrs(a) == [d \in Bands |-> IF IsNaN(a[d]) THEN NaN ELSE a[d] * C1[d] - C2[d]]

\* ------------------------------------------------------------------ LandCoverSampler
\* Rrs / (zeta + G*Rrs) with zeta = 0.52 (line 266) and G = 1.56, in 0.001
SubSurface(r) ==
    IF IsNaN(r) THEN NaN
    ELSE LET den == 52000 + 156 * r
         IN  IF den = 0 THEN NaN ELSE (100000 * r) \div den

SandTest(px) == NDLT(px, 6, 1, 65) /\ GT(px[4], px[3]) /\ GT(px[3], px[2])

VegTest(px) == NDGT(px, 7, 4, 60) /\ GT(px[6], px[2])

ShadowFilter(px) == NDGT(px, 6, 1, 20)

WaterTest(px) == LT(px[7], 110) /\ \A d \in Bands : GT(px[d], 0)

\* band ordering 8<7, 6<7, 6<5, 4<5, 4<3 (1-indexed) and its mirror
GlintA(px) ==
    /\ LT(px[7], px[6]) /\ LT(px[5], px[6]) /\ LT(px[5], px[4])
    /\ LT(px[3], px[4]) /\ LT(px[3], px[2])
GlintB(px) ==
    /\ GT(px[7], px[6]) /\ GT(px[5], px[6]) /\ GT(px[5], px[4])
    /\ GT(px[3], px[4]) /\ GT(px[3], px[2])

\* secondary water-quality test on the subsurface bands
WaterQuality(w) == GT(w[3], w[1]) /\ LT(w[3], 120) /\ LT(w[4], w[2])

\* the branches of the if/elif chain of lines 386-500 that a pixel enters
FiredBranchesIndependent(px) ==
    {br \in {"sand", "veg", "water", "glintA", "glintB"} :
        \/ br = "sand" /\ SandTest(px)
        \/ br = "veg" /\ VegTest(px)
        \/ br = "water" /\ WaterTest(px)
        \/ br = "glintA" /\ GlintA(px)
        \/ br = "glintB" /\ GlintB(px)}
FiredBranches(px) ==
    IF SandTest(px) THEN {"sand"}
    ELSE IF VegTest(px) THEN {"veg"}
    ELSE IF WaterTest(px) THEN {"water"}
    ELSE IF GlintA(px) THEN {"glintA"}
    ELSE IF GlintB(px) THEN {"glintB"}
    ELSE {}

\* the sampler's variables as one record
SamplerState ==
    [num_pix |-> num_pix, c_val |-> c_val, b |-> b, t |-> t, u |-> u, v |-> v,
     sum_SD |-> sum_SD, sum_veg |-> sum_veg, sum_veg2 |-> sum_veg2,
     dead_veg |-> dead_veg, sum_water_rrs |-> sum_water_rrs, water |-> water,
     fired |-> fired, err |-> "none"]

\* water[u, 0:7] = float(Rrs[j, k, :]), the transcription of
\* water(u, 1:8) = Rrs(j, k, :) (line 519); IndexError past the last row
PutBands(S, row, px) ==
    IF S.err # "none" THEN S
    ELSE IF row \in DOMAIN S.water
    THEN [S EXCEPT !.water[row] = [c \in 0 .. 8 |-> IF c \in Bands THEN px[c] ELSE @[c]]]
    ELSE [S EXCEPT !.err = "IndexError:water"]

\* water[row, 8] = flag; IndexError past the last row
PutFlag(S, row, flag) ==
    IF S.err # "none" THEN S
    ELSE IF row \in DOMAIN S.water
    THEN [S EXCEPT !.water[row][8] = flag]
    ELSE [S EXCEPT !.err = "IndexError:water"]

\* u = u + 1, v = v + 1 after the statements before them succeeded
Advance(S, du, dv) ==
    IF S.err # "none" THEN S ELSE [S EXCEPT !.u = @ + du, !.v = @ + dv]

\* line 394: sum(Rrs[j, k, 5:7]), the quantity whose mean is avg_SD_sum
SampledSD(px) == px[5] + px[6]

\* lines 394-395
SandBranch(S, px) ==
    IF S.err # "none" THEN S
    ELSE [S EXCEPT !.sum_SD = Append(@, SampledSD(px)), !.b = @ + 1]

\* lines 404-423; the dead-vegetation residual is kept multiplied by 3
VegBranch(S, px) ==
    IF S.err = "none" /\ ShadowFilter(px)
    THEN [S EXCEPT !.sum_veg = Append(@, px[2] + px[3]),
                   !.sum_veg2 = Append(@, px[6]),
                   !.dead_veg = Append(@, (px[6] - px[3]) + 3 * px[3] - 3 * px[4]),
                   !.t = @ + 1]
    ELSE S

\* lines 440-446
WaterSum(S, px) ==
    LET w == [d \in 0 .. 4 |-> SubSurface(px[d])]
    IN  IF S.err = "none" /\ WaterQuality(w)
        THEN [S EXCEPT !.sum_water_rrs = Append(@, w[2] + w[3])]
        ELSE S

\* lines 435-476: the row pointer advances before the flag is written
WaterBranch(S, px) ==
    LET S1 == Advance(WaterSum(PutBands(S, S.u, px), px), 1, 0)
    IN  IF GlintA(px) THEN PutFlag(Advance(S1, 0, 1), S1.u, 2)
        ELSE IF GlintB(px) THEN PutFlag(Advance(S1, 0, 1), S1.u, 3)
        ELSE PutFlag(S1, S1.u, 1)

\* lines 484-488
GlintABranch(S, px) == Advance(PutFlag(PutBands(S, S.u, px), S.u, 2), 1, 1)

\* lines 497-500
GlintBBranch(S, px) == Advance(PutBands(PutFlag(S, S.u, 3), S.u, px), 1, 1)

\* lines 383-500: what the loop body does with one pixel
SampleBody(S, px) ==
    LET F  == FiredBranches(px)
        S0 == [S EXCEPT !.num_pix = @ + 1, !.c_val = Append(@, px[0]), !.fired = F]
        S1 == IF "sand" \in F THEN SandBranch(S0, px) ELSE S0
        S2 == IF "veg" \in F THEN VegBranch(S1, px) ELSE S1
        S3 == IF "water" \in F THEN WaterBranch(S2, px) ELSE S2
        S4 == IF "glintA" \in F THEN GlintABranch(S3, px) ELSE S3
        S5 == IF "glintB" \in F THEN GlintBBranch(S4, px) ELSE S4
    IN  S5

\* isnan(Rrs[j, k, 0]) is False: isnan returns a numpy.bool_, which is never the
\* object False
NanIsFalse(x) == FALSE

\* isnan(Rrs[j, k, 0]) == 0
NotNaN(x) == ~IsNaN(x)

\* ------------------------------------------------------------------ the program
Zeros(size) == [p \in Pos(size) |-> 0]

\* nothing is bound before process_file binds it
UnboundSampler ==
    /\ num_pix = 0 /\ c_val = << >> /\ b = 0 /\ t = 0 /\ u = 0 /\ v = 0
    /\ sum_SD = << >> /\ sum_veg = << >> /\ sum_veg2 = << >> /\ dead_veg = << >>
    /\ sum_water_rrs = << >> /\ water = << >> /\ fired = {}
UnboundFinal ==
    /\ mnNIR1 = 0 /\ mnNIR2 = 0 /\ E_glint = << >>
    /\ avg_SD_sum = << >> /\ avg_veg_sum = << >> /\ avg_dead_veg = << >>
    /\ avg_mang_sum = << >> /\ avg_water_sum = << >>
UnboundRasters ==
    /\ Bathy = << >> /\ Rrs_deglint = << >> /\ Rrs_0 = << >> /\ map = << >>
    /\ entered = << >>
Unbound ==
    /\ crd_sys = "" /\ err = "none" /\ ESd = 0 /\ Rrs = << >> /\ files = << >>
    /\ az = NaN
    /\ j = 0 /\ k = 0
    /\ UnboundSampler /\ UnboundFinal /\ UnboundRasters

\* the scenes: a fill pixel everywhere but at no more than MaxSpecial places
SceneIn(size) ==
    /\ sz = size
    /\ \E fill \in Fills :
       \E Q \in {X \in SUBSET Pos(size) : Cardinality(X) <= MaxSpecial} :
       \E f \in [Q -> {x \in Specials : x.a # fill \/ x.bw # 0}] :
          /\ A = [p \in Pos(size) |-> IF p \in Q THEN f[p].a ELSE fill]
          /\ BW = [p \in Pos(size) |-> IF p \in Q THEN f[p].bw ELSE 0]

\* invocations that vary the arguments and the date over a 1 x 1 scene, and
\* invocations that vary the scene
Init ==
    /\ pc = "main"
    /\ Unbound
    /\ filter = 3
    /\ aqday = 15
    /\ sunaz = 150 /\ sensaz = 200
    /\ \/ /\ crd_arg \in {"EPSG:4326", "EPSG:3857"}
          /\ d_t \in 0 .. 2
          /\ Rrs_write \in {0, 1}
          /\ aqyear \in {1, 1582, 2017, 9999}
          /\ aqmonth \in {1, 6, 12}
          /\ aqhour \in {0, 12}
          /\ SceneIn([rows |-> 1, cols |-> 1])
       \/ /\ crd_arg = "EPSG:4326"
          /\ d_t = 2
          /\ Rrs_write = 1
          /\ aqyear = 2017 /\ aqmonth = 12 /\ aqhour = 12
          /\ \E size \in Dims : SceneIn(size)

\* lines 1115-1130: main
Main ==
    /\ pc = "main"
    /\ crd_sys' = "EPSG:4326"
    /\ IF crd_sys' = "EPSG:4326"
       THEN pc' = "geometry" /\ err' = err
       ELSE pc' = "raised" /\ err' = "ValueError:crd_sys"
    /\ UNCHANGED <<params, azimuth, ESd, Rrs, files, j, k, sampler, glint, metrics, rasters>>

\* lines 157-178: Julian date, Earth-Sun distance and its assertion
Geometry ==
    /\ pc = "geometry"
    /\ ESd' = EarthSun(Degs(JulianD2(aqyear, aqmonth, aqday, aqhour)))
    /\ IF ESdInRange(ESd')
       THEN pc' = "rayleigh" /\ err' = err
       ELSE pc' = "raised" /\ err' = "AssertionError:ESd"
    /\ UNCHANGED <<params, azimuth, crd_sys, Rrs, files, j, k, sampler, glint, metrics, rasters>>

\* lines 194-201: the azimuths brought to (-180, 180] and the relative azimuth
\* of the scattering angle (degrees)
Rayleigh ==
    /\ pc = "rayleigh"
    /\ sunaz' = Normalize(sunaz)
    /\ sensaz' = Normalize(sensaz)
    /\ az' = RelativeAzimuth(sunaz', sensaz')
    /\ pc' = "convert"
    /\ UNCHANGED <<params, crd_sys, err, ESd, Rrs, files, j, k, sampler, glint, metrics,
                   rasters>>

\* lines 316-359: Rrs = A * C1 - C2, and the reflectance file
Convert ==
    /\ pc = "convert"
    /\ Rrs' = [p \in Pos(sz) |-> ToRrs(A[p])]
    /\ files' = IF Rrs_write = 1 THEN Append(files, "Rrs") ELSE files
    /\ pc' = IF d_t > 0 THEN "setup" ELSE "done"
    /\ UNCHANGED <<params, azimuth, crd_sys, err, ESd, j, k, sampler, glint, metrics, rasters>>

\* lines 366-379
Setup ==
    /\ pc = "setup"
    /\ b' = 1 /\ t' = 1 /\ u' = 0 /\ v' = 0
    /\ sum_SD' = << >> /\ num_pix' = 0 /\ sum_veg' = <<0>> /\ sum_veg2' = << >>
    /\ dead_veg' = <<0>> /\ sum_water_rrs' = << >>
    /\ water' = [r \in 0 .. (sz.rows * sz.cols - 1) |-> [c \in 0 .. 8 |-> 0]]
    /\ c_val' = << >> /\ fired' = {}
    /\ j' = 0 /\ k' = 0
    /\ pc' = "sample"
    /\ UNCHANGED <<params, azimuth, crd_sys, err, ESd, Rrs, files, glint, metrics, rasters>>

\* lines 380-381: the loops end after the pixel of the last row and last column
SamplingEndsEarly(jj, kk) == jj = sz.rows - 1
SamplingEnds(jj, kk) == jj = sz.rows - 1 /\ kk = sz.cols - 1

\* one iteration of the loops of lines 380-381 with the given test of line 382
SampleIteration(entersBody) ==
    LET S == IF entersBody THEN SampleBody(SamplerState, Rrs[<<j, k>>]) ELSE SamplerState
        last == SamplingEnds(j, k)
    IN  /\ num_pix' = S.num_pix /\ c_val' = S.c_val /\ b' = S.b /\ t' = S.t
        /\ u' = S.u /\ v' = S.v /\ sum_SD' = S.sum_SD /\ sum_veg' = S.sum_veg
        /\ sum_veg2' = S.sum_veg2 /\ dead_veg' = S.dead_veg
        /\ sum_water_rrs' = S.sum_water_rrs /\ water' = S.water
        /\ fired' = IF entersBody THEN S.fired ELSE {}
        /\ IF S.err # "none" THEN pc' = "raised" /\ err' = S.err /\ UNCHANGED <<j, k>>
           ELSE /\ err' = err
                /\ pc' = IF last THEN "pdb" ELSE "sample"
                /\ IF last THEN UNCHANGED <<j, k>>
                   ELSE IF k = sz.cols - 1 THEN j' = j + 1 /\ k' = 0
                   ELSE j' = j /\ k' = k + 1
        /\ UNCHANGED <<params, azimuth, crd_sys, ESd, Rrs, files, glint, metrics, rasters>>

\* lines 380-525 as CPython runs them
SampleScan ==
    /\ pc = "sample"
    /\ SampleIteration(NanIsFalse(Rrs[<<j, k>>][0]))

\* line 530: the debugger prompt; the operator continues
PdbContinue ==
    /\ pc = "pdb"
    /\ pc' = "report"
    /\ UNCHANGED <<params, azimuth, crd_sys, err, ESd, Rrs, files, j, k, sampler, glint, metrics,
                   rasters>>

\* lines 532-533 under CPython: n_glinted is not bound (line 528 binds n_glInted)
ReportPy ==
    /\ pc = "report"
    /\ pc' = "raised" /\ err' = "NameError:n_glinted"
    /\ UNCHANGED <<params, azimuth, crd_sys, ESd, Rrs, files, j, k, sampler, glint, metrics,
                   rasters>>

Next ==
    \/ Main \/ Geometry \/ Rayleigh \/ Convert \/ Setup \/ SampleScan \/ PdbContinue
    \/ ReportPy

Spec == Init /\ [][Next]_vars

\* the interpreter takes every step it can; the debugger prompt of line 530 is
\* left only when the operator types a command, which nothing obliges
SpecLive ==
    /\ Init /\ [][Next]_vars
    /\ WF_vars(Main \/ Geometry \/ Rayleigh \/ Convert \/ Setup \/ SampleScan \/ ReportPy)

\* ------------------------------------------------------------------ statistics
\* numpy.mean of a list: its sum and length; the mean of no value is NaN
Mean(seq) ==
    LET RECURSIVE Sum(_)
        Sum(q) == IF q = << >> THEN 0 ELSE Head(q) + Sum(Tail(q))
    IN  IF \E i \in DOMAIN seq : IsNaN(seq[i]) THEN [s |-> 0, n |-> 0]
        ELSE [s |-> Sum(seq), n |-> Len(seq)]

\* x < mean and x > mean
LtMean(x, m) == ~IsNaN(x) /\ m.n > 0 /\ x * m.n < m.s
GtMean(x, m) == ~IsNaN(x) /\ m.n > 0 /\ x * m.n > m.s

\* line 535: the rows whose first column is 0 become NaN
MaskUnpopulated(w) ==
    [r \in DOMAIN w |-> IF w[r][0] = 0 THEN [c \in 0 .. 8 |-> NaN] ELSE w[r]]

\* min(i for i in column if i > 0); NaN stands for "no such value" (ValueError)
PositiveMin(w, col) ==
    LET vals == {w[r][col] : r \in {q \in DOMAIN w : GT(w[q][col], 0)}}
    IN  IF vals = {} THEN NaN ELSE CHOOSE x \in vals : \A y \in vals : x <= y

\* mldivide(x, y): the least-squares slope (no intercept) as a fraction;
\* a NaN in a column makes it NaN (a fraction with denominator 0)
mldivide(w, cx, cy) ==
    LET rows == DOMAIN w
        RECURSIVE Dot(_, _, _)
        Dot(R, c1, c2) ==
            IF R = {} THEN 0
            ELSE LET r == CHOOSE q \in R : TRUE
                 IN  w[r][c1] * w[r][c2] + Dot(R \ {r}, c1, c2)
    IN  IF \E r \in rows : IsNaN(w[r][cx]) \/ IsNaN(w[r][cy])
        THEN [num |-> 0, den |-> 0]
        ELSE [num |-> Dot(rows, cx, cy), den |-> Dot(rows, cx, cx)]

ZeroSlope == [num |-> 0, den |-> 1]

\* v > 0.25 * u
GlintTestAtLeast(vv, uu) == 4 * vv >= uu
GlintTest(vv, uu) == 4 * vv > uu

\* lines 554-570: only E_glint[5] is assigned, after the loop has ended with b = 5
FitGlint(w) ==
    [i \in 0 .. 5 |-> IF i = 5 THEN mldivide(w, 5, 7) ELSE ZeroSlope]

\* lines 380-525 over the pixels in a given order, from sampler state S; the pass
\* stops at the first exception
RECURSIVE SampleAlong(_, _)
SampleAlong(S, order) ==
    IF order = << >> \/ S.err # "none" THEN S
    ELSE LET px == Rrs[Head(order)]
         IN  SampleAlong(IF NotNaN(px[0]) THEN SampleBody(S, px) ELSE S, Tail(order))

\* what lines 526-575 and 637-641 make of a finished pass: the counts, the means,
\* the two floors and the glint decision, or the exception that ended the pass
SampleSummary(S) ==
    IF S.err # "none" THEN [err |-> S.err]
    ELSE LET w == MaskUnpopulated(S.water)
         IN  [err |-> "none", num_pix |-> S.num_pix, u |-> S.u, v |-> S.v,
              avg_SD_sum |-> Mean(S.sum_SD), avg_veg_sum |-> Mean(S.sum_veg),
              avg_dead_veg |-> Mean(S.dead_veg), avg_mang_sum |-> Mean(S.sum_veg2),
              mnNIR1 |-> PositiveMin(w, 6), mnNIR2 |-> PositiveMin(w, 7),
              deglint |-> GlintTest(S.v, S.u)]

\* ------------------------------------------------------------------ depth
LnTable ==
    <<0, 693, 1099, 1386, 1609, 1792, 1946, 2079, 2197, 2303, 2398, 2485, 2565,
      2639, 2708, 2773>>

\* 1000 * ln(m) for an integer m >= 1
RECURSIVE Ln1000(_)
Ln1000(m) == IF m <= 16 THEN LnTable[m] ELSE 2773 + Ln1000(m \div 16)

\* Rrs_0 holds reflectances in units of 0.0005, so that 1000 * Rrs_0(i) is m/2
LnArg(m) == Ln1000(m) - 693

\* 1000 * (a / c) truncated towards zero, c # 0
Quot1000(a, c) ==
    LET q == (1000 * (IF a < 0 THEN 0 - a ELSE a)) \div (IF c < 0 THEN 0 - c ELSE c)
    IN  IF (a < 0) = (c < 0) THEN q ELSE 0 - q

\* dp = log(1000*x)/log(1000*y) in 0.001; NaN when a logarithm is infinite or
\* the ratio is undefined (log(0) = -Inf, x/0 = Inf in the MATLAB statement)
Stumpf(x, y) ==
    IF IsNaN(x) \/ IsNaN(y) \/ x <= 0 \/ y <= 0 THEN NaN
    ELSE IF LnArg(y) = 0 THEN NaN
    ELSE Quot1000(LnArg(x), LnArg(y))

\* lines 701-705, 724-728, 939-943, 1009-1013: the new value of Bathy[j, k]
DepthGuardClosed(old, dp) == IF ~IsNaN(dp) /\ dp >= 0 /\ dp <= 2000 THEN dp ELSE old
DepthGuard(old, dp) == IF GT(dp, 0) /\ LT(dp, 2000) THEN dp ELSE old

\* ------------------------------------------------------------------ DecisionTreeClassifier
\* the scene-level values the classifier reads
Context ==
    [u |-> u, v |-> v, E_glint |-> E_glint, mnNIR1 |-> mnNIR1, mnNIR2 |-> mnNIR2,
     avg_SD_sum |-> avg_SD_sum, avg_veg_sum |-> avg_veg_sum,
     avg_mang_sum |-> avg_mang_sum, avg_water_sum |-> avg_water_sum,
     Rrs_0 |-> Rrs_0]

\* ((Rrs6 - Rrs1)/5)*n + Rrs1, multiplied by 5
Predicted5(px, n) == n * (px[6] - px[1]) + 5 * px[1]

\* lines 818-836 and 840-859
Agriculture(px) ==
    IF NDLT(px, 1, 4, 40)
    THEN IF GT(px[6], 120) /\ RatioGT(px[6], px[2] + px[3], 2, 1) THEN 33 ELSE 31
    ELSE 32

\* line 757: sum(Rrs[j, k, 5:8]), the quantity compared with avg_SD_sum
ComparedSD(px) == px[5] + px[6] + px[7]

\* lines 745-779
SandComplexOld(px, bw, ctx) ==
    IF LT(px[6], px[1]) /\ GT(px[7], px[4]) THEN 0
    ELSE IF NDLT(px, 7, 4, 1) /\ GT(px[7], 50)
    THEN IF bw = 1 THEN 1
         ELSE IF LtMean(ComparedSD(px), ctx.avg_SD_sum) THEN 22
         ELSE 21
    ELSE IF 5 * px[4] > Predicted5(px, 2) THEN 21
    ELSE IF 500 * px[4] < 60 * Predicted5(px, 3) /\ GT(px[6], 200) THEN 31
    ELSE 22
SandComplex(px, bw, ctx) ==
    IF LT(px[6], px[1]) /\ GT(px[7], px[4]) THEN 0
    ELSE IF NDLT(px, 7, 4, 1) /\ GT(px[7], 50)
    THEN IF bw = 1 THEN 11
         ELSE IF LtMean(ComparedSD(px), ctx.avg_SD_sum) THEN 22
         ELSE 21
    ELSE IF 5 * px[4] > Predicted5(px, 2) THEN 21
    ELSE IF 500 * px[4] < 60 * Predicted5(px, 3) /\ GT(px[6], 200) THEN 31
    ELSE 22

\* lines 805-880
VegComplex(px, ctx) ==
    IF GT(px[6], px[1]) /\ NDLT(px, 6, 1, 20) /\ NDGT(px, 6, 7, 1) THEN 0
    ELSE IF LtMean(px[2] + px[3], ctx.avg_veg_sum) THEN Agriculture(px)
    ELSE IF LtMean(px[6], ctx.avg_mang_sum) THEN Agriculture(px)
    ELSE IF NDGT(px, 7, 4, 65) THEN 32
    ELSE IF 500 * px[4] > 60 * Predicted5(px, 3) /\ LT(px[6], 200) THEN 31
    ELSE IF LT(px[6], 120) THEN 30
    ELSE 32

\* lines 956-995 and 1025-1063: the second-level split
WaterSplit(px, ctx) ==
    IF LT(px[5], px[6]) THEN 0
    ELSE IF NDLT(px, 2, 3, 10)
    THEN IF GT(px[3], px[2]) \/ GT(px[4], px[2]) THEN 53
         ELSE IF GtMean(px[2] + px[3], ctx.avg_water_sum) /\ NDGT(px, 4, 1, 10) THEN 52
         ELSE IF GT(px[3], px[1]) /\ NDLT(px, 2, 5, 60)
         THEN IF NDGT(px, 2, 4, 10) THEN 54 ELSE 55
         ELSE 51
    ELSE 51

SandCond(px) == NDLT(px, 6, 1, 60) /\ GT(px[4], px[3]) /\ GT(px[3], px[2])

MudCond(px) ==
    \/ GT(px[1], px[2]) /\ GT(px[6], px[2]) /\ LT(px[1], 100) /\ NDLT(px, 7, 4, 20)
    \/ GT(px[7], 50) /\ GT(px[6], px[1]) /\ NDLT(px, 7, 4, 10)

VegCond(px) == NDGT(px, 7, 4, 20) /\ GT(px[6], px[2])

WaterCond(px) ==
    \/ LT(px[7], 200) /\ GT(px[7], 0)
    \/ GlintA(px) /\ GT(px[7], 0)
    \/ GlintB(px) /\ GT(px[7], 0)

\* lines 739-756: the pixel reaches the comparison with avg_SD_sum
ReachesSDTest(px, bw) ==
    /\ SandCond(px)
    /\ ~(LT(px[6], px[1]) /\ GT(px[7], px[4]))
    /\ NDLT(px, 7, 4, 1) /\ GT(px[7], 50)
    /\ bw # 1

\* px[i] - slope * (px[ref] - floor)
Deglinted(px, i, slope, ref, floor) ==
    IF slope.den = 0 \/ IsNaN(floor) THEN NaN
    ELSE (px[i] * slope.den - slope.num * (px[ref] - floor)) \div slope.den

\* lines 900-923: Rrs_deglint has 5 rows, so the sixth assignment raises
DeglintBuffer(px, ctx) ==
    [i \in 0 .. 4 |->
        IF i \in {0, 3}
        THEN Deglinted(px, i, ctx.E_glint[i], 7, ctx.mnNIR2)
        ELSE Deglinted(px, i, ctx.E_glint[i], 6, ctx.mnNIR1)]

\* the result of classifying one pixel: the class code written (or "none"),
\* the pixel's bands afterwards, Rrs_deglint, the depth ratio and the exception
\* lines 739-1064
DecisionTree(px, bw, ctx, dg) ==
    LET land(c) == [code |-> c, px |-> px, dg |-> dg, dp |-> NaN, tried |-> FALSE,
                    err |-> "none"]
    IN  IF SandCond(px) THEN land(SandComplex(px, bw, ctx))
        ELSE IF MudCond(px) THEN land(IF bw = 1 THEN 11 ELSE 22)
        ELSE IF VegCond(px) THEN land(VegComplex(px, ctx))
        ELSE IF WaterCond(px)
        THEN IF GlintTest(ctx.v, ctx.u)
             THEN [code |-> NaN, px |-> px, dg |-> DeglintBuffer(px, ctx), dp |-> NaN,
                   tried |-> FALSE, err |-> "IndexError:Rrs_deglint"]
             ELSE [code |-> WaterSplit(px, ctx), px |-> px, dg |-> dg,
                   dp |-> Stumpf(ctx.Rrs_0[1], ctx.Rrs_0[2]), tried |-> TRUE,
                   err |-> "none"]
        ELSE LET q == [d \in Bands |-> IF d <= 4 THEN SubSurface(px[d]) ELSE px[d]]
             IN  [code |-> WaterSplit(q, ctx), px |-> q, dg |-> dg,
                  dp |-> Stumpf(ctx.Rrs_0[1], ctx.Rrs_0[2]), tried |-> TRUE,
                  err |-> "none"]

\* ------------------------------------------------------------------ the stages
\* process_file at line 361, the reflectance computed and written
InitStages ==
    /\ pc = "setup"
    /\ crd_arg = "EPSG:4326" /\ crd_sys = "EPSG:4326"
    /\ d_t \in 1 .. 2
    /\ Rrs_write = 1
    /\ filter \in IF d_t = 2 THEN {0, 3} ELSE {3}
    /\ aqyear = 2017 /\ aqmonth = 12 /\ aqday = 15 /\ aqhour = 12
    /\ \E size \in Dims : SceneIn(size)
    /\ err = "none"
    /\ ESd = EarthSun(Degs(JulianD2(aqyear, aqmonth, aqday, aqhour)))
    /\ Rrs = [p \in Pos(sz) |-> ToRrs(A[p])]
    /\ files = <<"Rrs">>
    /\ sunaz = Normalize(150) /\ sensaz = Normalize(200)
    /\ az = RelativeAzimuth(sunaz, sensaz)
    /\ j = 0 /\ k = 0
    /\ UnboundSampler /\ UnboundFinal /\ UnboundRasters

\* lines 380-525 with the body entered for every pixel whose band 0 is a number
SampleStep ==
    /\ pc = "sample"
    /\ SampleIteration(NotNaN(Rrs[<<j, k>>][0]))

\* lines 527-533: the counts are printed
Report ==
    /\ pc = "report"
    /\ pc' = "floors"
    /\ UNCHANGED <<params, azimuth, crd_sys, err, ESd, Rrs, files, j, k, sampler, glint, metrics,
                   rasters>>

\* lines 535-541: min() of no value raises ValueError
Floors ==
    /\ pc = "floors"
    /\ water' = MaskUnpopulated(water)
    /\ LET m1 == PositiveMin(water', 6)
           m2 == PositiveMin(water', 7)
       IN  IF IsNaN(m1)
           THEN pc' = "raised" /\ err' = "ValueError:min" /\ UNCHANGED <<mnNIR1, mnNIR2>>
           ELSE IF IsNaN(m2)
           THEN pc' = "raised" /\ err' = "ValueError:min" /\ mnNIR1' = m1 /\ mnNIR2' = mnNIR2
           ELSE pc' = "glint" /\ err' = err /\ mnNIR1' = m1 /\ mnNIR2' = m2
    /\ UNCHANGED <<params, azimuth, crd_sys, ESd, Rrs, files, j, k, num_pix, c_val, b, t, u, v,
                   sum_SD, sum_veg, sum_veg2, dead_veg, sum_water_rrs, fired, E_glint,
                   metrics, rasters>>

\* lines 545-575: the glint decision and the regression
GlintFit ==
    /\ pc = "glint"
    /\ IF GlintTest(v, u)
       THEN E_glint' = FitGlint(water) /\ b' = 5
       ELSE UNCHANGED <<E_glint, b>>
    /\ pc' = "metrics"
    /\ UNCHANGED <<params, azimuth, crd_sys, err, ESd, Rrs, files, j, k, num_pix, c_val, t, u, v,
                   sum_SD, sum_veg, sum_veg2, dead_veg, sum_water_rrs, water, fired,
                   mnNIR1, mnNIR2, metrics, rasters>>

\* where the loops of lines 735-736 start: range(1, rows), range(1, cols)
ClassifyEntry ==
    IF sz.rows < 2 THEN "done" ELSE IF sz.cols < 2 THEN "rowend" ELSE "classify"

\* lines 637-664: the adaptive means and the preallocated rasters.
\* sum_water_rrs == 0 is False, so line 644 assigns NaN to element 0 of the list
\* (IndexError on an empty list).  The cloud threshold (647-657) is never read.
Metrics ==
    /\ pc = "metrics"
    /\ avg_SD_sum' = Mean(sum_SD)
    /\ avg_veg_sum' = Mean(sum_veg)
    /\ avg_dead_veg' = Mean(dead_veg)
    /\ avg_mang_sum' = Mean(sum_veg2)
    /\ IF sum_water_rrs = << >>
       THEN /\ pc' = "raised" /\ err' = "IndexError:sum_water_rrs"
            /\ UNCHANGED <<sum_water_rrs, avg_water_sum, rasters, j, k>>
       ELSE /\ sum_water_rrs' = [sum_water_rrs EXCEPT ![1] = NaN]
            /\ avg_water_sum' = Mean(sum_water_rrs')
            /\ Bathy' = Zeros(sz) /\ map' = Zeros(sz) /\ entered' = Zeros(sz)
            /\ Rrs_deglint' = [i \in 0 .. 4 |-> 0]
            /\ Rrs_0' = [i \in 1 .. 5 |-> 0]
            /\ err' = err
            /\ IF d_t = 1 THEN pc' = "depth1" /\ UNCHANGED <<j, k>>
               ELSE pc' = ClassifyEntry /\ j' = 1 /\ k' = 1
    /\ UNCHANGED <<params, azimuth, crd_sys, ESd, Rrs, files, num_pix, c_val, b, t, u, v,
                   sum_SD, sum_veg, sum_veg2, dead_veg, water, fired, glint>>

\* lines 666-729: depth 1 works on the pixel the sampling loops ended on
Depth1 ==
    /\ pc = "depth1"
    /\ LET px == Rrs[<<j, k>>]
       IN  IF GlintTest(v, u)
           THEN /\ Rrs_deglint' = [Rrs_deglint EXCEPT
                                     ![0] = Deglinted(px, 0, E_glint[0], 7, mnNIR2)]
                /\ pc' = "raised" /\ err' = "IndexError:Rrs_deglint"
                /\ UNCHANGED <<Rrs, Bathy>>
           ELSE /\ Rrs' = [Rrs EXCEPT ![<<j, k>>] =
                             [d \in Bands |-> IF d <= 4 THEN SubSurface(px[d]) ELSE px[d]]]
                /\ Bathy' = [Bathy EXCEPT ![<<j, k>>] =
                               DepthGuard(@, Stumpf(Rrs_0[2], Rrs_0[3]))]
                /\ pc' = "done" /\ err' = err
                /\ UNCHANGED Rrs_deglint
    /\ UNCHANGED <<params, azimuth, crd_sys, ESd, files, j, k, sampler, glint, metrics, Rrs_0, map,
                   entered>>

\* lines 736-1068: one iteration of the inner loop
ClassifyStep ==
    /\ pc = "classify"
    /\ LET p  == <<j, k>>
           px == Rrs[p]
           r  == DecisionTree(px, BW[p], Context, Rrs_deglint)
       IN  IF NotNaN(px[0])
           THEN /\ entered' = [entered EXCEPT ![p] = @ + 1]
                /\ Rrs_deglint' = r.dg
                /\ IF r.err # "none"
                   THEN /\ pc' = "raised" /\ err' = r.err
                        /\ UNCHANGED <<Rrs, Bathy, map, k>>
                   ELSE /\ Rrs' = [Rrs EXCEPT ![p] = r.px]
                        /\ Bathy' = IF r.tried
                                    THEN [Bathy EXCEPT ![p] = DepthGuard(@, r.dp)]
                                    ELSE Bathy
                        /\ map' = [map EXCEPT ![p] = r.code]
                        /\ err' = err
                        /\ IF k + 1 < sz.cols THEN pc' = pc /\ k' = k + 1
                           ELSE pc' = "rowend" /\ k' = k
           ELSE /\ UNCHANGED <<entered, Rrs_deglint, Rrs, Bathy, map, err>>
                /\ IF k + 1 < sz.cols THEN pc' = pc /\ k' = k + 1
                   ELSE pc' = "rowend" /\ k' = k
    /\ UNCHANGED <<params, azimuth, crd_sys, ESd, files, j, sampler, glint, metrics, Rrs_0>>

\* lines 1091-1109, in the body of the loop over j: the map (filtered when
\* filter > 0) and the subsurface reflectance are written after every row
RowOutput ==
    /\ pc = "rowend"
    /\ files' = files \o <<IF filter > 0 THEN "Map_filt" ELSE "Map", "rrssub">>
    /\ IF j + 1 < sz.rows
       THEN /\ j' = j + 1 /\ k' = 1
            /\ pc' = IF sz.cols < 2 THEN "rowend" ELSE "classify"
       ELSE pc' = "done" /\ UNCHANGED <<j, k>>
    /\ UNCHANGED <<params, azimuth, crd_sys, err, ESd, Rrs, sampler, glint, metrics, rasters>>

NextStages ==
    \/ Setup \/ SampleStep \/ PdbContinue \/ Report \/ Floors \/ GlintFit \/ Metrics
    \/ Depth1 \/ ClassifyStep \/ RowOutput

SpecStages == InitStages /\ [][NextStages]_vars

\* ------------------------------------------------------------------ the depth guard alone
DepthInputs == {0, 1, 2, 3, 4, 8, 16}

\* one row of cells, every other part of the program at rest
InitDepth ==
    /\ pc = "depthguard"
    /\ crd_arg = "EPSG:4326" /\ crd_sys = "EPSG:4326"
    /\ d_t \in 1 .. 2 /\ Rrs_write = 0 /\ filter = 0
    /\ aqyear = 2017 /\ aqmonth = 12 /\ aqday = 15 /\ aqhour = 12
    /\ \E c \in 1 .. MaxCols : sz = [rows |-> 1, cols |-> c]
    /\ A = [p \in Pos(sz) |-> RawWater] /\ BW = Zeros(sz)
    /\ err = "none" /\ ESd = 0 /\ Rrs = [p \in Pos(sz) |-> ToRrs(A[p])] /\ files = << >>
    /\ sunaz = Normalize(150) /\ sensaz = Normalize(200)
    /\ az = RelativeAzimuth(sunaz, sensaz)
    /\ j = 0 /\ k = 0
    /\ UnboundSampler /\ UnboundFinal
    /\ Bathy = Zeros(sz) /\ map = Zeros(sz) /\ entered = Zeros(sz)
    /\ Rrs_deglint = [i \in 0 .. 4 |-> 0]
    /\ Rrs_0 = [i \in 1 .. 5 |-> 0]

\* the statements "dp = log(...)/log(...); if dp > 0 and dp < 2: Bathy[j, k] = dp"
\* for the next cell, with the two reflectances drawn; d_t = 1 reads Rrs_0(2) and
\* Rrs_0(3) (line 723), d_t = 2 reads Rrs_0(1) and Rrs_0(2) (lines 937, 1007)
DepthApply ==
    /\ pc = "depthguard"
    /\ \E x \in DepthInputs, y \in DepthInputs :
          LET first == IF d_t = 1 THEN 2 ELSE 1
          IN  /\ Rrs_0' = [Rrs_0 EXCEPT ![first] = x, ![first + 1] = y]
              /\ Bathy' = [Bathy EXCEPT ![<<j, k>>] =
                             DepthGuard(@, Stumpf(Rrs_0'[first], Rrs_0'[first + 1]))]
    /\ IF k + 1 < sz.cols THEN k' = k + 1 /\ pc' = pc ELSE k' = k /\ pc' = "done"
    /\ UNCHANGED <<params, azimuth, crd_sys, err, ESd, Rrs, files, j, sampler, glint, metrics,
                   Rrs_deglint, map, entered>>

SpecDepth == InitDepth /\ [][DepthApply]_vars

\* ------------------------------------------------------------------ the azimuths alone
\* azimuths as the metadata give them, in [0, 360)
AzimuthInputs == {0, 1, 45, 90, 135, 179, 180, 181, 225, 270, 315, 359}

\* process_file at line 194 for the two azimuths drawn
InitAzimuth ==
    /\ pc = "rayleigh"
    /\ crd_arg = "EPSG:4326" /\ d_t = 0 /\ Rrs_write = 0 /\ filter = 0
    /\ aqyear = 2017 /\ aqmonth = 12 /\ aqday = 15 /\ aqhour = 12
    /\ sz = [rows |-> 1, cols |-> 1]
    /\ A = [p \in Pos(sz) |-> RawWater] /\ BW = Zeros(sz)
    /\ sunaz \in AzimuthInputs /\ sensaz \in AzimuthInputs
    /\ Unbound

SpecAzimuth == InitAzimuth /\ [][Rayleigh]_vars

\* ------------------------------------------------------------------ properties
\* C1: at depth 2, when classification has run to its end, every pixel whose band 0
\* is a number was entered into the decision tree exactly once, whatever the size
\* of the image and wherever the pixel lies.
CE_C1 ==
    (pc = "done" /\ d_t = 2) =>
        \A p \in Pos(sz) : NotNaN(A[p][0]) => entered[p] = 1

\* C2: at depth 2, when classification has run to its end, two pixels of the scene
\* with the same band vector and the same developed-mask bit carry the same class
\* code, whatever their positions.
CE_C2 ==
    (pc = "done" /\ d_t = 2) =>
        \A p \in Pos(sz), q \in Pos(sz) :
            (A[p] = A[q] /\ BW[p] = BW[q]) => map[p] = map[q]

Thm_C4 ==
    LET AfterGlint ==
            \/ pc \in {"metrics", "depth1", "classify", "rowend", "done"}
            \/ pc = "raised"
                  /\ err \in {"IndexError:sum_water_rrs", "IndexError:Rrs_deglint"}
    IN  IF AfterGlint THEN (E_glint # << >>) <=> (4 * v > u) ELSE E_glint = << >>
Witness_C4 == pc = "metrics" /\ E_glint # << >> /\ 4 * v > u /\ v < u

\* C5: every cell of the depth raster is 0 or a depth strictly between 0 and 2
\* (depths in 0.001): a candidate that is NaN, infinite, negative, 0, 2 or more
\* leaves the cell as it was.
Thm_C5 ==
    \A p \in DOMAIN Bathy : Bathy[p] = 0 \/ (0 < Bathy[p] /\ Bathy[p] < 2000)
Witness_C5 ==
    /\ pc = "done" /\ d_t = 2 /\ sz.cols = 2
    /\ Bathy[<<0, 0>>] > 0
    /\ Stumpf(Rrs_0[1], Rrs_0[2]) = 2000 /\ Bathy[<<0, 1>>] = 0

\* C6: one pass of the sampling loop body enters at most one of the five branches:
\* at most one of the sand counter, the vegetation list and the water row pointer
\* moves, and the row pointer moves by one row at most.
Thm_C6 ==
    [][pc = "sample" =>
          /\ Cardinality(fired') <= 1
          /\ (b' - b) + (Len(sum_veg') - Len(sum_veg)) + (u' - u) <= 1]_vars
Witness_C6 ==
    /\ pc = "pdb" /\ fired = {"water"}
    /\ WaterTest(Rrs[<<j, k>>]) /\ GlintA(Rrs[<<j, k>>])

\* C7: an acquisition year far from any plausible one (year 1, year 9999) is
\* rejected by the Earth-Sun distance validation: the run stops there with the
\* assertion error and the reflectance is never computed.
CE_C7 ==
    (aqyear \in {1, 9999} /\ pc \notin {"main", "geometry"}) =>
        (pc = "raised" /\ err = "AssertionError:ESd")

\* C8: a run asked for a coordinate system other than EPSG:4326 stops in main with
\* the fatal error, and process_file is never called.
CE_C8 ==
    crd_arg # "EPSG:4326" =>
        (pc = "main" \/ (pc = "raised" /\ err = "ValueError:crd_sys"))

\* C9: a pixel whose raw count is the no-data 0 or the saturated 2047 in every band
\* is never entered into the decision tree.
CE_C9 == \A p \in DOMAIN entered : IsSentinel(A[p]) => entered[p] = 0

\* C10: finalization never raises for want of samples: neither the minimum over
\* the water rows nor the masking of the water sums stops the run.
CE_C10 ==
    pc = "raised" => err \notin {"ValueError:min", "IndexError:sum_water_rrs"}

\* C11: the decision tree runs only once the sampling pass has seen every pixel
\* and the means, the two NIR floors, the counts and the glint decision are
\* final, and no step of the classification changes any of them.
Thm_C11 ==
    [][LET Valid == {p \in Pos(sz) : NotNaN(A[p][0])}
           Finalized ==
               /\ num_pix = Cardinality(Valid) /\ Len(c_val) = num_pix
               /\ avg_SD_sum # << >> /\ avg_veg_sum # << >> /\ avg_dead_veg # << >>
               /\ avg_mang_sum # << >> /\ avg_water_sum # << >>
               /\ mnNIR1 > 0 /\ mnNIR2 > 0
               /\ (E_glint # << >>) <=> (4 * v > u)
           Classifying ==
               \/ pc \in {"classify", "rowend"}
               \/ \E p \in DOMAIN entered : entered[p] > 0
           Kept == sampler' = sampler /\ glint' = glint /\ metrics' = metrics
       IN  /\ Classifying' => Finalized'
           /\ Classifying => Kept]_vars
Witness_C11 ==
    /\ pc = "done" /\ d_t = 2 /\ \E p \in DOMAIN entered : entered[p] > 0
    /\ num_pix >= 3 /\ u >= 1 /\ Len(sum_SD) >= 1

\* C12: every run ends: it completes without raising and without waiting for
\* anybody, or it stops at one of the two validation errors.
CE_C12 ==
    <>(\/ pc = "done"
       \/ pc = "raised" /\ err \in {"AssertionError:ESd", "ValueError:crd_sys"})

\* C13: when a depth-1 run ends, every pixel whose band 0 is a number has its bands
\* 0-4 converted to subsurface reflectance.
CE_C13 ==
    (pc = "done" /\ d_t = 1) =>
        \A p \in Pos(sz) :
            NotNaN(A[p][0]) =>
                \A d \in 0 .. 4 : Rrs[p][d] = SubSurface(ToRrs(A[p])[d])

\* C14: the outcome of the sampling pass (the counts, the means, the two floors,
\* the glint decision) is the same for every order of visiting the pixels.
CE_C14 ==
    (pc = "sample" /\ j = 0 /\ k = 0) =>
        LET N      == sz.rows * sz.cols
            Orders == {q \in [1 .. N -> Pos(sz)] : \A a, c \in 1 .. N : q[a] = q[c] => a = c}
        IN  \A q1 \in Orders, q2 \in Orders :
                SampleSummary(SampleAlong(SamplerState, q1))
                    = SampleSummary(SampleAlong(SamplerState, q2))

\* C15: the class map (filtered or not) and the subsurface reflectance are each
\* written to their files at most once, and not before the last row has been
\* classified.
CE_C15 ==
    LET Written(names) == Cardinality({i \in DOMAIN files : files[i] \in names})
    IN  /\ Written({"Map", "Map_filt"}) <= 1
        /\ Written({"rrssub"}) <= 1
        /\ Written({"Map", "Map_filt", "rrssub"}) > 0 => pc = "done"

\* C16: when the sampling pass has ended, the valid-pixel counter equals the number
\* of pixels whose band 0 is a number, and one band-0 value was recorded for each.
CE_C16 ==
    pc = "pdb" =>
        /\ num_pix = Cardinality({p \in Pos(sz) : ~IsNaN(Rrs[p][0])})
        /\ Len(c_val) = num_pix

\* C17: a glint vector, when there is one, has 6 entries, and entry b is the slope
\* fitted for band b: against NIR2 for b in {0, 3, 5}, against NIR1 for the others.
CE_C17 ==
    E_glint # << >> =>
        /\ DOMAIN E_glint = 0 .. 5
        /\ \A i \in 0 .. 5 :
              E_glint[i] = mldivide(water, i, IF i \in {0, 3, 5} THEN 7 ELSE 6)

\* C18: when the sampling pass has ended, each of the u populated rows of the water
\* table carries the flag of its own pixel: no populated row has flag 0, a row is
\* flagged 2 or 3 exactly when its bands pass the glint test A or B, and the rows
\* flagged 2 or 3 are v in number.
CE_C18 ==
    pc = "pdb" =>
        LET Row(r)  == [d \in Bands |-> water[r][d]]
            Own(r)  == IF GlintA(Row(r)) THEN 2 ELSE IF GlintB(Row(r)) THEN 3 ELSE 1
        IN  /\ \A r \in 0 .. u - 1 : water[r][8] = Own(r)
            /\ Cardinality({r \in 0 .. u - 1 : water[r][8] \in {2, 3}}) = v

\* C19: no write to the water table goes past its last row: the sampling pass
\* never ends with the IndexError of a write to the table.
CE_C19 == ~(pc = "raised" /\ err = "IndexError:water")

\* C20: once the means are computed, the vegetation mean and the dead-vegetation
\* mean are taken over as many values as vegetation pixels were sampled, and the
\* water-sum mean over the non-zero water sums, none of which is lost.
CE_C20 ==
    avg_water_sum # << >> =>
        /\ avg_veg_sum.n = Len(sum_veg2)
        /\ avg_dead_veg.n = Len(sum_veg2)
        /\ \A i \in DOMAIN sum_water_rrs : ~IsNaN(sum_water_rrs[i])
        /\ avg_water_sum.n = Cardinality({i \in DOMAIN sum_water_rrs : sum_water_rrs[i] # 0})

\* C21: in a glint-free scene at depth 2, every classified pixel that is treated
\* as water (none of the sand, mud and vegetation conditions holds for it) has its
\* bands 0-4 replaced by their subsurface values.
CE_C21 ==
    (pc \in {"classify", "rowend", "done"} /\ d_t = 2 /\ 4 * v <= u) =>
        \A p \in Pos(sz) :
            LET px == ToRrs(A[p])
            IN  (entered[p] = 1 /\ ~SandCond(px) /\ ~MudCond(px) /\ ~VegCond(px)) =>
                    \A d \in 0 .. 4 : Rrs[p][d] = SubSurface(px[d])

\* C22: the depth kept for a classified water pixel is the guarded ratio
\* ln(1000*rrs_1)/ln(1000*rrs_2) of that pixel's own first two bands as the
\* classifier left them (bands in 0.001, hence twice the band in units of 0.0005).
CE_C22 ==
    (pc = "done" /\ d_t = 2) =>
        \A p \in Pos(sz) :
            LET px == ToRrs(A[p])
            IN  (entered[p] = 1 /\ ~SandCond(px) /\ ~MudCond(px) /\ ~VegCond(px)) =>
                    Bathy[p] = DepthGuard(0, Stumpf(2 * Rrs[p][0], 2 * Rrs[p][1]))

\* C23: the relative azimuth used in the scattering angle lies in (-180, 180].
CE_C23 == az # NaN => (-180 < az /\ az <= 180)

\* C23, as the code has it: each of the two azimuths is brought to (-180, 180]
\* and the relative azimuth |sensaz - 180 - sunaz| lies in [0, 540).
Thm_C23 ==
    az # NaN =>
        /\ -180 < sunaz /\ sunaz <= 180
        /\ -180 < sensaz /\ sensaz <= 180
        /\ 0 <= az /\ az < 540
Witness_C23 == az # NaN /\ az > 180 /\ sunaz = 180 /\ sensaz = -179

\* C24: the deglint buffer is written only in runs where the glint vector was
\* fitted (v > 0.25 u), and no run stops on an index outside the buffer.
CE_C24 ==
    /\ (\E i \in DOMAIN Rrs_deglint : Rrs_deglint[i] # 0) => (E_glint # << >> /\ 4 * v > u)
    /\ ~(pc = "raised" /\ err = "IndexError:Rrs_deglint" /\ 4 * v > u)

\* C25: a classified pixel whose band sum is compared with the sand/developed
\* mean is compared by the band sum the sampler averaged into that mean.
CE_C25 ==
    (pc \in {"classify", "rowend", "done"} /\ d_t = 2) =>
        \A p \in Pos(sz) :
            (entered[p] = 1 /\ ReachesSDTest(Rrs[p], BW[p])) =>
                ComparedSD(Rrs[p]) = SampledSD(Rrs[p])

====
